---- MODULE Spec2Model ----
(***************************************************************************)
(* Model of mlxim.trainer.Trainer (src/src/mlxim/trainer/trainer.py).      *)
(*                                                                         *)
(* The trainer is one sequential thread of control.  The program counter   *)
(* pc names the statement about to run; every action is one statement (or  *)
(* a run of adjacent statements) of train(), train_epoch() or val_epoch(). *)
(* Collaborators (model, loss function, optimizer, data loaders, accuracy  *)
(* accumulators, checkpoint policy, clock) are not in the file: what they  *)
(* return is drawn from small sets, and any call to one may raise.         *)
(*                                                                         *)
(* Numbers that the code keeps as floats are exact rationals <<num, den>>  *)
(* in lowest terms here.                                                   *)
(***************************************************************************)
EXTENDS Integers, Sequences, FiniteSets, TLC

\* ---------------------------------------------------------------- bounds
MaxBatches == 3
MaxValBatches == 2
MaxEpochs == 3

\* values a batch / a step can carry
BatchSizes == {0, 4}
Losses == {1, 2}
\* toc - tic in clock ticks: a clock too coarse for the step reads 0
Ticks == {0, 1}
\* log_every constructor argument, as exact fractions num/den (0.1 is the default)
LogFractions == {<<1, 10>>, <<7, 10>>}

VARIABLES
    \* ---- constructor arguments / fields set by __init__
    train_loader,      \* len(self.train_loader): number of training batches
    val_loader,        \* <<>> when val_loader is None, else <<len(val_loader)>>
    log_frac,          \* the log_every argument (fraction of an epoch)
    log_every,         \* self.log_every = int(log_every * len(train_loader))
    max_epochs,        \* self.max_epochs
    model_checkpoint,  \* TRUE iff a ModelCheckpoint was passed
    loss_fn_args,      \* "None" (the default) or "dict"
    monitor,           \* the metric key the checkpoint policy requires ("" without a policy)
    \* ---- control
    pc,                \* statement about to execute
    error,             \* <<>> or <<[type, site]>>: the exception leaving train()
    epoch,             \* loop variable of train()
    batch_idx,         \* loop variable of train_epoch() / val_epoch()
    \* ---- per-batch locals
    x_size,            \* x.shape[0]
    loss,              \* the (lazy) loss of the current batch
    elapsed,           \* toc - tic, in clock ticks
    \* ---- per-phase locals
    epoch_loss,        \* list of loss.item()
    throughput,        \* list of x.shape[0] / (toc - tic)
    \* ---- locals of train()
    train_res,         \* <<>> or <<[loss, acc, throughput]>> returned by train_epoch
    val_res,           \* <<>> or <<[loss, acc, throughput]>> returned by val_epoch
    \* ---- collaborators' state
    train_acc,         \* self.train_acc: the updates fed since its last reset
    val_acc,           \* self.val_acc
    weights,           \* model parameters: number of optimizer updates applied
    mode,              \* model mode: "init", "train" or "eval"
    patience_over,     \* model_checkpoint.patience_over
    n_steps,           \* number of step() calls of the run
    \* ---- observation of the run (not program state)
    thrown,            \* <<>> or <<[type, site]>>: the exception raised inside train()
    last_step,         \* <<>> or <<[epoch, metrics, weights]>>: the step() call of this epoch
    seen,              \* the batches of the current phase: [size, loss, elapsed]
    lines,             \* progress lines printed by the current train_epoch
    done,              \* phases completed in the current epoch
    steps_in_epoch,    \* step() calls in the current epoch
    reads_in_epoch,    \* reads of patience_over in the current epoch
    early,             \* <<>> or <<e>>: patience_over read true after the step() of epoch e
    n_updates,         \* train_acc.update calls of the run
    acc_log,           \* calls made on the accumulator of the current phase
    events             \* what happened to the current batch, in order

config == <<train_loader, val_loader, log_frac, log_every, max_epochs,
            model_checkpoint, loss_fn_args, monitor>>
batchv == <<batch_idx, x_size, loss, elapsed>>
listv  == <<epoch_loss, throughput>>
resv   == <<train_res, val_res>>
accv   == <<train_acc, val_acc>>
ckptv  == <<patience_over, n_steps>>
obsv   == <<thrown, last_step, seen, lines, done, steps_in_epoch, reads_in_epoch,
            early>>
logv   == <<n_updates, acc_log, events>>
vars   == <<config, pc, error, epoch, batchv, listv, resv, accv, weights, mode,
            ckptv, obsv, logv>>

\* ------------------------------------------------------------- arithmetic
RECURSIVE GCD(_, _)
GCD(a, b) == IF b = 0 THEN a ELSE GCD(b, a % b)

\* the rational n/d (n >= 0, d > 0) in lowest terms
Rat(n, d) == LET g == GCD(n, d) IN <<n \div g, d \div g>>

RatAdd(p, q) == Rat(p[1] * q[2] + q[1] * p[2], p[2] * q[2])

RECURSIVE RatSum(_)
RatSum(s) == IF s = <<>> THEN <<0, 1>> ELSE RatAdd(Head(s), RatSum(Tail(s)))

\* np.mean over a list that drops its first element: a wrong mean
MeanSkipFirst(s) == LET t == Tail(s) IN
    IF t = <<>> THEN <<0, 1>> ELSE
    LET sum == RatSum(t) IN Rat(sum[1], sum[2] * Len(t))

\* np.mean(list) of a non-empty list
Mean(s) == LET sum == RatSum(s) IN Rat(sum[1], sum[2] * Len(s))

\* int(log_every * len(self.train_loader)) for a fraction f >= 0
LogEveryOf(f, n) == (f[1] * n) \div f[2]

\* ------------------------------------------------------------ collaborators
\* Accuracy(): a fresh accumulator
AccNew == <<>>
\* Accuracy.update(logits, target): one more update feeds the running value
AccUpdate(acc, u) == Append(acc, u)
\* Accuracy.compute(): a value determined by the updates since the last reset
AccCompute(acc) == acc
\* Accuracy.reset()
AccReset(acc) == <<>>

\* metric keys a checkpoint policy can be set up to require
Monitors == {"val_loss", "train_loss"}

\* the keys of the metrics mapping train() passes to step(): lines 177 and 187
SuppliedKeys(vl) ==
    IF vl # <<>> THEN {"val_loss", "val_acc"} ELSE {"train_loss", "train_acc"}

\* ------------------------------------------------------------------- Init
\* The state after Trainer(...) returned: __init__, lines 45-62, stores its
\* arguments and checks none of them.
Init ==
    /\ train_loader \in 1..MaxBatches
    /\ val_loader \in {<<>>} \cup {<<n>> : n \in 1..MaxValBatches}
    /\ log_frac \in LogFractions
    /\ log_every = LogEveryOf(log_frac, train_loader)
    /\ max_epochs \in 0..MaxEpochs
    /\ model_checkpoint \in BOOLEAN
    /\ loss_fn_args \in {"None", "dict"}
    /\ monitor \in (IF model_checkpoint THEN Monitors ELSE {""})
    /\ patience_over \in (IF model_checkpoint THEN BOOLEAN ELSE {FALSE})
    /\ train_acc = AccNew
    /\ val_acc = AccNew
    /\ pc = "idle"
    /\ error = <<>>
    /\ epoch = -1
    /\ batch_idx = -1
    /\ x_size = 0 /\ loss = 0 /\ elapsed = 0
    /\ epoch_loss = <<>> /\ throughput = <<>>
    /\ train_res = <<>> /\ val_res = <<>>
    /\ weights = 0
    /\ mode = "init"
    /\ n_steps = 0
    /\ thrown = <<>> /\ last_step = <<>> /\ seen = <<>> /\ lines = 0
    /\ done = {} /\ steps_in_epoch = 0 /\ reads_in_epoch = 0
    /\ early = <<>>
    /\ n_updates = 0 /\ acc_log = <<>> /\ events = <<>>

\* ------------------------------------------------------------- exceptions
\* An exception that no try/except of train(), train_epoch() or val_epoch()
\* handles but is swallowed and the loop goes on with the next epoch: wrong.
PropagateSwallowed(e) == pc' = "for_epoch" /\ error' = error

\* No statement of the file is inside a try: an exception raised anywhere
\* below train() leaves train() and reaches its caller.
Propagate(e) == pc' = "raised" /\ error' = <<e>>

Throw(type, site) ==
    LET e == [type |-> type, site |-> site] IN
    /\ thrown' = <<e>>
    /\ Propagate(e)

\* the statements that call into a collaborator
CollabSites == {"train_epoch", "t_for", "t_step", "t_opt", "t_eval", "t_record",
                "t_finish", "val_epoch", "v_for", "v_step", "v_record",
                "v_finish", "ckpt_step"}

\* Any collaborator call may raise instead of returning.
CollaboratorRaises ==
    /\ pc \in CollabSites
    /\ Throw("CollaboratorFailure", pc)
    /\ UNCHANGED <<config, epoch, batchv, listv, resv, accv, weights, mode, ckptv,
                   last_step, seen, lines, done, steps_in_epoch, reads_in_epoch, early>>
    /\ UNCHANGED logv

\* ------------------------------------------------------------------ train()
\* the caller invokes train(), line 156
Train ==
    /\ pc = "idle"
    /\ pc' = "for_epoch"
    /\ UNCHANGED <<config, error, epoch, batchv, listv, resv, accv, weights, mode,
                   ckptv, obsv>>
    /\ UNCHANGED logv

\* for epoch in range(self.max_epochs), lines 159-161.  The locals of the
\* previous iteration are dead (each is assigned again before it is read) and
\* are modelled as unassigned.
ForEpoch ==
    /\ pc = "for_epoch"
    /\ IF epoch + 1 < max_epochs
         THEN /\ epoch' = epoch + 1
              /\ pc' = "train_epoch"
         ELSE /\ epoch' = epoch
              /\ pc' = "returned"
    /\ train_res' = <<>> /\ val_res' = <<>>
    /\ last_step' = <<>> /\ done' = {} /\ steps_in_epoch' = 0 /\ reads_in_epoch' = 0
    /\ UNCHANGED <<config, error, batchv, listv, accv, weights, mode, ckptv,
                   thrown, seen, lines, early>>
    /\ acc_log' = <<>> /\ events' = <<>>
    /\ UNCHANGED n_updates

\* ------------------------------------------------------------ train_epoch()
\* a model put in training mode before the first epoch only: wrong
TrainModeOnce(m) == IF m = "init" THEN "train" ELSE m

\* self.model.train(), line 103
TrainMode(m) == "train"

\* self.model.eval(), line 141
EvalMode(m) == "eval"

\* lines 103-105
TrainEpochBegin ==
    /\ pc = "train_epoch"
    /\ mode' = TrainMode(mode)
    /\ epoch_loss' = <<>> /\ throughput' = <<>>
    /\ batch_idx' = -1
    /\ seen' = <<>> /\ lines' = 0
    /\ pc' = "t_for"
    /\ UNCHANGED <<config, error, epoch, x_size, loss, elapsed, resv, accv, weights,
                   ckptv, thrown, last_step, done, steps_in_epoch, reads_in_epoch, early>>
    /\ acc_log' = <<>> /\ events' = <<>>
    /\ UNCHANGED n_updates

\* for batch_idx, batch in enumerate(self.train_loader): x, target = batch
\* lines 106-107
TrainFor ==
    /\ pc = "t_for"
    /\ IF batch_idx + 1 < train_loader
         THEN /\ batch_idx' = batch_idx + 1
              /\ x_size' \in BatchSizes
              /\ pc' = "t_step"
         ELSE /\ batch_idx' = batch_idx
              /\ x_size' = x_size
              /\ pc' = "t_finish"
    /\ UNCHANGED <<config, error, epoch, loss, elapsed, listv, resv, accv, weights,
                   mode, ckptv, obsv>>
    /\ events' = <<>>
    /\ UNCHANGED <<n_updates, acc_log>>

\* k calls of update, as entries of acc_log
Updates(k) == [i \in 1..k |-> "update"]

\* a step function that runs twice per batch (once for the loss, once more
\* for the gradients) and so feeds the accumulator twice: wrong
TrainStepAccTwice(acc, u) == AccUpdate(AccUpdate(acc, u), u)

\* self.train_acc.update(logits, target) in _train_step, line 76, which
\* train_epoch runs once per batch (line 111)
TrainStepAcc(acc, u) == AccUpdate(acc, u)

\* tic; loss, grads = nn.value_and_grad(self.model, self._train_step)(x, target)
\* lines 109-111 with _train_step, lines 74-77: **self.loss_fn_args with
\* loss_fn_args None is a TypeError, raised before train_acc.update.
TrainStep ==
    /\ pc = "t_step"
    /\ IF loss_fn_args = "None"
         THEN /\ Throw("TypeError", "t_step")
              /\ UNCHANGED <<loss, train_acc, logv>>
         ELSE /\ loss' \in Losses
              /\ train_acc' = TrainStepAcc(train_acc, <<"train", epoch, batch_idx>>)
              /\ n_updates' = n_updates + Len(train_acc') - Len(train_acc)
              /\ acc_log' = acc_log \o Updates(Len(train_acc') - Len(train_acc))
              /\ events' = <<"tic", "compute">>
              /\ pc' = "t_opt"
              /\ UNCHANGED <<error, thrown>>
    /\ UNCHANGED <<config, epoch, batch_idx, x_size, elapsed, listv, resv, val_acc,
                   weights, mode, ckptv, last_step, seen, lines, done,
                   steps_in_epoch, reads_in_epoch, early>>

\* self.optimizer.update(self.model, grads), line 112
OptimizerUpdate ==
    /\ pc = "t_opt"
    /\ weights' = weights + 1
    /\ pc' = "t_eval"
    /\ UNCHANGED <<config, error, epoch, batchv, listv, resv, accv, mode, ckptv, obsv>>
    /\ events' = Append(events, "update")
    /\ UNCHANGED <<n_updates, acc_log>>

\* mx.eval(self.state); toc = time.perf_counter(), lines 113-114
TrainSync ==
    /\ pc = "t_eval"
    /\ elapsed' \in Ticks
    /\ seen' = Append(seen, [size |-> x_size, loss |-> loss, elapsed |-> elapsed'])
    /\ pc' = "t_record"
    /\ UNCHANGED <<config, error, epoch, batch_idx, x_size, loss, listv, resv, accv,
                   weights, mode, ckptv, thrown, last_step, lines, done,
                   steps_in_epoch, reads_in_epoch, early>>
    /\ events' = events \o <<"sync", "toc">>
    /\ UNCHANGED <<n_updates, acc_log>>

\* epoch_loss.append(loss.item()); throughput.append(x.shape[0] / (toc - tic))
\* lines 116-117: Python raises ZeroDivisionError when toc - tic is 0.
TrainRecord ==
    /\ pc = "t_record"
    /\ epoch_loss' = Append(epoch_loss, <<loss, 1>>)
    /\ IF elapsed = 0
         THEN /\ Throw("ZeroDivisionError", "t_record")
              /\ throughput' = throughput
         ELSE /\ throughput' = Append(throughput, Rat(x_size, elapsed))
              /\ pc' = "t_log"
              /\ UNCHANGED <<error, thrown>>
    /\ UNCHANGED <<config, epoch, batchv, resv, accv, weights, mode, ckptv,
                   last_step, seen, lines, done, steps_in_epoch, reads_in_epoch, early>>
    /\ events' = Append(events, "item")
    /\ UNCHANGED <<n_updates, acc_log>>

\* batch_idx % self.log_every == 0, line 119, for log_every # 0
LogFires(idx, every) == idx % every = 0

\* if batch_idx % self.log_every == 0: print(...), lines 119-129: Python raises
\* ZeroDivisionError when log_every is 0.
TrainLog ==
    /\ pc = "t_log"
    /\ IF log_every = 0
         THEN /\ Throw("ZeroDivisionError", "t_log")
              /\ lines' = lines
         ELSE /\ lines' = IF LogFires(batch_idx, log_every) THEN lines + 1 ELSE lines
              /\ pc' = "t_for"
              /\ UNCHANGED <<error, thrown>>
    /\ UNCHANGED <<config, epoch, batchv, listv, resv, accv, weights, mode, ckptv,
                   last_step, seen, done, steps_in_epoch, reads_in_epoch, early>>
    /\ UNCHANGED logv

\* an accumulator left as it is at the end of a phase (reset() forgotten): wrong
PhaseEndKeep(acc) == acc

\* self.train_acc.reset() / self.val_acc.reset(), lines 132 and 153
PhaseEndReset(acc) == AccReset(acc)

\* an accumulator reset before it is read: wrong
PhaseEndResetFirst(acc) ==
    [value |-> AccCompute(AccReset(acc)), acc |-> AccReset(acc),
     calls |-> <<"reset", "compute">>]

\* epoch_acc = self.train_acc.compute(); self.train_acc.reset(), lines 131-132
\* and 152-153: the value read, the accumulator afterwards, the calls made
PhaseEnd(acc) ==
    [value |-> AccCompute(acc), acc |-> PhaseEndReset(acc),
     calls |-> <<"compute", "reset">>]

\* epoch_acc = self.train_acc.compute(); self.train_acc.reset()
\* return np.mean(epoch_loss), epoch_acc, np.mean(throughput), lines 131-133
\* and the assignment of line 162.  The function's locals end with it.
TrainFinish ==
    /\ pc = "t_finish"
    /\ train_res' = <<[loss |-> Mean(epoch_loss), acc |-> PhaseEnd(train_acc).value,
                       throughput |-> Mean(throughput)]>>
    /\ train_acc' = PhaseEnd(train_acc).acc
    /\ acc_log' = acc_log \o PhaseEnd(train_acc).calls
    /\ events' = <<>>
    /\ UNCHANGED n_updates
    /\ epoch_loss' = <<>> /\ throughput' = <<>>
    /\ batch_idx' = -1 /\ x_size' = 0 /\ loss' = 0 /\ elapsed' = 0
    /\ done' = done \cup {"train"}
    /\ pc' = "after_train"
    /\ UNCHANGED <<config, error, epoch, val_res, val_acc, weights, mode, ckptv,
                   thrown, last_step, seen, lines, steps_in_epoch, reads_in_epoch, early>>

\* ------------------------------------------------------------------ train()
\* a branch that skips validation although a validation loader is set: wrong
AfterTrainSkipVal(vl, mc) == IF mc THEN "ckpt_step" ELSE "epoch_end"

\* a train() that looks at the patience flag as soon as train_epoch() returned
\* and stops before validation and step(): wrong
AfterTrainChecksFlag(vl, mc) ==
    IF mc /\ patience_over THEN "ckpt_read"
    ELSE IF vl # <<>> THEN "val_epoch"
    ELSE IF mc THEN "ckpt_step" ELSE "epoch_end"

\* where train() goes after train_epoch() returned: lines 168, 183 and 184
AfterTrainPc(vl, mc) ==
    IF vl # <<>> THEN "val_epoch"
    ELSE IF mc THEN "ckpt_step" ELSE "epoch_end"

\* print(...); if self.val_loader is not None: ... else: if self.model_checkpoint:
\* lines 163-169 and 183-184
AfterTrain ==
    /\ pc = "after_train"
    /\ pc' = AfterTrainPc(val_loader, model_checkpoint)
    /\ seen' = <<>>
    /\ UNCHANGED <<config, error, epoch, batchv, listv, resv, accv, weights, mode,
                   ckptv, thrown, last_step, lines, done, steps_in_epoch,
                   reads_in_epoch, early>>
    /\ UNCHANGED logv

\* -------------------------------------------------------------- val_epoch()
\* lines 141-143
ValEpochBegin ==
    /\ pc = "val_epoch"
    /\ mode' = EvalMode(mode)
    /\ epoch_loss' = <<>> /\ throughput' = <<>>
    /\ batch_idx' = -1
    /\ seen' = <<>>
    /\ pc' = "v_for"
    /\ UNCHANGED <<config, error, epoch, x_size, loss, elapsed, resv, accv, weights,
                   ckptv, thrown, last_step, lines, done, steps_in_epoch,
                   reads_in_epoch, early>>
    /\ acc_log' = <<>> /\ events' = <<>>
    /\ UNCHANGED n_updates

\* for _, batch in tqdm(enumerate(self.val_loader), ...): x, target = batch
\* lines 144-145
ValFor ==
    /\ pc = "v_for"
    /\ IF batch_idx + 1 < val_loader[1]
         THEN /\ batch_idx' = batch_idx + 1
              /\ x_size' \in BatchSizes
              /\ pc' = "v_step"
         ELSE /\ batch_idx' = batch_idx
              /\ x_size' = x_size
              /\ pc' = "v_finish"
    /\ UNCHANGED <<config, error, epoch, loss, elapsed, listv, resv, accv, weights,
                   mode, ckptv, obsv>>
    /\ events' = <<>>
    /\ UNCHANGED <<n_updates, acc_log>>

\* a validation step that feeds the training accumulator: wrong
ValStepAccShared(ta, va, u) == <<AccUpdate(ta, u), va>>

\* self.val_acc.update(logits, target) in _val_step, line 91: the pair
\* <<train_acc, val_acc>> after a validation step
ValStepAcc(ta, va, u) == <<ta, AccUpdate(va, u)>>

\* tic; loss = self._val_step(x, target); toc, lines 146-148 with _val_step,
\* lines 89-92
ValStep ==
    /\ pc = "v_step"
    /\ IF loss_fn_args = "None"
         THEN /\ Throw("TypeError", "v_step")
              /\ UNCHANGED <<loss, elapsed, train_acc, val_acc, seen, logv>>
         ELSE /\ loss' \in Losses
              /\ train_acc' = ValStepAcc(train_acc, val_acc, <<"val", epoch, batch_idx>>)[1]
              /\ val_acc' = ValStepAcc(train_acc, val_acc, <<"val", epoch, batch_idx>>)[2]
              /\ acc_log' = acc_log \o Updates(Len(val_acc') - Len(val_acc))
              /\ events' = <<"tic", "compute", "toc">>
              /\ UNCHANGED n_updates
              /\ elapsed' \in Ticks
              /\ seen' = Append(seen, [size |-> x_size, loss |-> loss',
                                       elapsed |-> elapsed'])
              /\ pc' = "v_record"
              /\ UNCHANGED <<error, thrown>>
    /\ UNCHANGED <<config, epoch, batch_idx, x_size, listv, resv, weights,
                   mode, ckptv, last_step, lines, done, steps_in_epoch,
                   reads_in_epoch, early>>

\* epoch_loss.append(loss.item()); throughput.append(x.shape[0] / (toc - tic))
\* lines 149-150
ValRecord ==
    /\ pc = "v_record"
    /\ epoch_loss' = Append(epoch_loss, <<loss, 1>>)
    /\ IF elapsed = 0
         THEN /\ Throw("ZeroDivisionError", "v_record")
              /\ throughput' = throughput
         ELSE /\ throughput' = Append(throughput, Rat(x_size, elapsed))
              /\ pc' = "v_for"
              /\ UNCHANGED <<error, thrown>>
    /\ UNCHANGED <<config, epoch, batchv, resv, accv, weights, mode, ckptv,
                   last_step, seen, lines, done, steps_in_epoch, reads_in_epoch, early>>
    /\ events' = Append(events, "item")
    /\ UNCHANGED <<n_updates, acc_log>>

\* epoch_acc = self.val_acc.compute(); self.val_acc.reset()
\* return np.mean(epoch_loss), epoch_acc, np.mean(throughput), lines 152-154
\* and the assignment of line 170
ValFinish ==
    /\ pc = "v_finish"
    /\ val_res' = <<[loss |-> Mean(epoch_loss), acc |-> PhaseEnd(val_acc).value,
                     throughput |-> Mean(throughput)]>>
    /\ val_acc' = PhaseEnd(val_acc).acc
    /\ acc_log' = acc_log \o PhaseEnd(val_acc).calls
    /\ events' = <<>>
    /\ UNCHANGED n_updates
    /\ epoch_loss' = <<>> /\ throughput' = <<>>
    /\ batch_idx' = -1 /\ x_size' = 0 /\ loss' = 0 /\ elapsed' = 0
    /\ done' = done \cup {"val"}
    /\ pc' = "after_val"
    /\ UNCHANGED <<config, error, epoch, train_res, train_acc, weights, mode, ckptv,
                   thrown, last_step, seen, lines, steps_in_epoch, reads_in_epoch, early>>

\* ------------------------------------------------------------------ train()
\* print(...); if self.model_checkpoint:, lines 171-175
AfterVal ==
    /\ pc = "after_val"
    /\ pc' = IF model_checkpoint THEN "ckpt_step" ELSE "epoch_end"
    /\ seen' = <<>>
    /\ UNCHANGED <<config, error, epoch, batchv, listv, resv, accv, weights, mode,
                   ckptv, thrown, last_step, lines, done, steps_in_epoch,
                   reads_in_epoch, early>>
    /\ UNCHANGED logv

\* a metrics argument that is the training metrics in both branches: wrong
StepMetricsTrainOnly(vl, tr, va) ==
    [k \in {"train_loss", "train_acc"} |->
        IF k = "train_loss" THEN tr[1].loss ELSE tr[1].acc]

\* the metrics= argument of step(): line 177 when a validation loader is set,
\* line 187 otherwise
StepMetrics(vl, tr, va) ==
    IF vl # <<>>
      THEN [k \in {"val_loss", "val_acc"} |->
               IF k = "val_loss" THEN va[1].loss ELSE va[1].acc]
      ELSE [k \in {"train_loss", "train_acc"} |->
               IF k = "train_loss" THEN tr[1].loss ELSE tr[1].acc]

\* the epoch= argument of step(), lines 177 and 186
StepEpoch(e) == e

\* self.model_checkpoint.step(epoch=..., metrics=..., weights=get_weights(self.model))
\* lines 176-178 and 185-189.  What the policy does to its flag is its own.
CkptStep ==
    /\ pc = "ckpt_step"
    /\ last_step' = <<[epoch |-> StepEpoch(epoch),
                       metrics |-> StepMetrics(val_loader, train_res, val_res),
                       weights |-> weights]>>
    /\ n_steps' = n_steps + 1
    /\ steps_in_epoch' = steps_in_epoch + 1
    /\ patience_over' \in BOOLEAN
    /\ pc' = "ckpt_read"
    /\ UNCHANGED <<config, error, epoch, batchv, listv, resv, accv, weights, mode,
                   thrown, seen, lines, done, reads_in_epoch, early>>
    /\ UNCHANGED logv

\* a patience check that prints but goes on with the next epoch: wrong
AfterPatienceNoQuit(flag) == "epoch_end"

\* a patience check that leaves the loop with break, so that train() returns: wrong
AfterPatienceBreak(flag) == IF flag THEN "returned" ELSE "epoch_end"

\* if self.model_checkpoint.patience_over: ... quit(), lines 179-182 and 190-193
AfterPatience(flag) == IF flag THEN "exited" ELSE "epoch_end"

CkptRead ==
    /\ pc = "ckpt_read"
    /\ reads_in_epoch' = reads_in_epoch + 1
    /\ early' = IF patience_over THEN <<epoch>> ELSE early
    /\ pc' = AfterPatience(patience_over)
    /\ UNCHANGED <<config, error, epoch, batchv, listv, resv, accv, weights, mode,
                   ckptv, thrown, last_step, seen, lines, done, steps_in_epoch>>
    /\ UNCHANGED logv

\* print("\n*******************\n"), line 195
EpochEnd ==
    /\ pc = "epoch_end"
    /\ pc' = "for_epoch"
    /\ UNCHANGED <<config, error, epoch, batchv, listv, resv, accv, weights, mode,
                   ckptv, obsv>>
    /\ UNCHANGED logv

\* What train() delivers to its caller once it is over: it falls off the end of
\* the loop and returns None (lines 156, 159-195), quit() raises SystemExit
\* (lines 182, 193), or an exception raised below it propagates.
Outcome(p, err) ==
    IF p = "returned" THEN <<"return", "None">>
    ELSE IF p = "exited" THEN <<"raise", "SystemExit">>
    ELSE IF p = "raised" THEN <<"raise", err[1].type>>
    ELSE <<>>

Next ==
    \/ Train
    \/ ForEpoch
    \/ TrainEpochBegin
    \/ TrainFor
    \/ TrainStep
    \/ OptimizerUpdate
    \/ TrainSync
    \/ TrainRecord
    \/ TrainLog
    \/ TrainFinish
    \/ AfterTrain
    \/ ValEpochBegin
    \/ ValFor
    \/ ValStep
    \/ ValRecord
    \/ ValFinish
    \/ AfterVal
    \/ CkptStep
    \/ CkptRead
    \/ EpochEnd
    \/ CollaboratorRaises

Spec == Init /\ [][Next]_vars

\* ================================================================ claims
Ceil(a, b) == (a + b - 1) \div b
Max(a, b) == IF a >= b THEN a ELSE b

\* the updates one phase of epoch e over n batches feeds its accumulator
PhaseUpdates(phase, e, n) == [i \in 1..n |-> <<phase, e, i - 1>>]

\* C1: whenever step() is called, its metrics mapping is exactly this epoch's
\* validation metrics (keys val_loss, val_acc, values as val_epoch returned
\* them in this epoch) when a validation loader is configured, and exactly this
\* epoch's training metrics (keys train_loss, train_acc) when none is; never
\* both sets of keys, never empty.
C1_StepMetrics ==
    last_step # <<>> =>
        LET m == last_step[1].metrics IN
        IF val_loader # <<>>
          THEN /\ DOMAIN m = {"val_loss", "val_acc"}
               /\ val_res # <<>>
               /\ m["val_loss"] = val_res[1].loss
               /\ m["val_acc"] = val_res[1].acc
               /\ m["val_acc"] = AccCompute(PhaseUpdates("val", epoch, val_loader[1]))
          ELSE /\ DOMAIN m = {"train_loss", "train_acc"}
               /\ train_res # <<>>
               /\ m["train_loss"] = train_res[1].loss
               /\ m["train_acc"] = train_res[1].acc
               /\ m["train_acc"] = AccCompute(PhaseUpdates("train", epoch, train_loader))

\* step() ran in epoch 1 with a validation loader whose mean loss differs from
\* the training mean loss
C1_Witness ==
    /\ last_step # <<>>
    /\ val_loader # <<>>
    /\ epoch = 1
    /\ pc = "ckpt_read"
    /\ val_res[1].loss # train_res[1].loss

\* C2: once patience_over reads true right after the step() of epoch e, the run
\* has stopped in epoch e: train() is left through quit(), no statement of a
\* later epoch and nothing further of epoch e runs.
C2_EarlyStopStops ==
    early # <<>> =>
        /\ pc = "exited"
        /\ epoch = early[1]
        /\ steps_in_epoch = 1 /\ reads_in_epoch = 1
        /\ n_steps = epoch + 1
        /\ weights = (epoch + 1) * train_loader
        /\ train_acc = AccNew /\ val_acc = AccNew
        /\ thrown = <<>>

\* the flag read true at the end of epoch 1 of a run scheduled for 3 epochs or more
C2_Witness ==
    /\ early = <<1>>
    /\ max_epochs >= 3
    /\ pc = "exited"

\* C3: in every epoch the order is: the whole training phase; the whole
\* validation phase iff a validation loader is configured; iff a checkpoint
\* policy is configured one step() whose epoch is the current epoch and whose
\* weights are the weights after this epoch's training, then one read of
\* patience_over.  Epochs run 0, 1, 2, ...: the k-th step() carries epoch k.
C3_EpochOrder ==
    /\ steps_in_epoch <= 1
    /\ reads_in_epoch <= steps_in_epoch
    /\ (steps_in_epoch = 1) = (last_step # <<>>)
    /\ "val" \in done => "train" \in done /\ val_loader # <<>>
    /\ pc \in {"val_epoch", "v_for", "v_step", "v_record", "v_finish"} =>
           done = {"train"}
    /\ last_step # <<>> =>
           /\ model_checkpoint
           /\ "train" \in done
           /\ ("val" \in done) = (val_loader # <<>>)
           /\ last_step[1].epoch = epoch
           /\ last_step[1].epoch = n_steps - 1
           /\ last_step[1].weights = (epoch + 1) * train_loader
           /\ weights = last_step[1].weights
    /\ reads_in_epoch = 1 => pc \in {"epoch_end", "for_epoch", "exited"}
    /\ pc = "epoch_end" =>
           /\ "train" \in done
           /\ ("val" \in done) = (val_loader # <<>>)
           /\ steps_in_epoch = (IF model_checkpoint THEN 1 ELSE 0)
           /\ reads_in_epoch = steps_in_epoch

\* epoch 1 of a run with validation and a checkpoint policy is complete
C3_Witness ==
    /\ pc = "epoch_end"
    /\ epoch = 1
    /\ val_loader # <<>>
    /\ model_checkpoint
    /\ reads_in_epoch = 1

\* C4 (as claimed): a training epoch over N batches emits exactly
\* ceil(N / max(1, floor(f*N))) progress lines and, when floor(f*N) = 0, the
\* trigger fires on every batch and the epoch still completes.
C4_Claim ==
    /\ pc = "after_train" =>
           lines = Ceil(train_loader, Max(1, LogEveryOf(log_frac, train_loader)))
    /\ thrown # <<>> => thrown[1].site # "t_log"

\* C5: at the start of every training phase train_acc is in its reset state and
\* at the start of every validation phase val_acc is; what compute() returns at
\* the end of a phase is determined by that phase's updates of that epoch only.
C5_AccumulatorsFresh ==
    /\ pc \in {"for_epoch", "train_epoch"} \/ (pc = "t_for" /\ batch_idx = -1) =>
           train_acc = AccNew
    /\ pc = "val_epoch" \/ (pc = "v_for" /\ batch_idx = -1) => val_acc = AccNew
    /\ train_res # <<>> =>
           train_res[1].acc = AccCompute(PhaseUpdates("train", epoch, train_loader))
    /\ val_res # <<>> =>
           val_res[1].acc = AccCompute(PhaseUpdates("val", epoch, val_loader[1]))

\* the validation phase of epoch 1 is about to pull its first batch, after the
\* training phase of epoch 1 returned
C5_Witness ==
    /\ pc = "v_for" /\ batch_idx = -1
    /\ epoch = 1
    /\ train_res # <<>>

\* C6 (as claimed): if every collaborator call returns and no early stop fires,
\* train() runs exactly max_epochs epochs and returns; a run ends in
\* Stopped(normal) or Stopped(early).
C6_Claim ==
    /\ pc = "raised" => thrown[1].type = "CollaboratorFailure"
    /\ pc = "returned" =>
           /\ epoch = max_epochs - 1
           /\ weights = max_epochs * train_loader
           /\ early = <<>>

\* C7: when a collaborator call raises, the run aborts there and that error
\* reaches the caller of train(): no retry, no later batch, phase, step or epoch.
C7_FailFast ==
    thrown # <<>> /\ thrown[1].type = "CollaboratorFailure" =>
        /\ pc = "raised"
        /\ error = thrown
        /\ thrown[1].site = "t_opt" => weights = epoch * train_loader + batch_idx
        /\ thrown[1].site = "ckpt_step" => steps_in_epoch = 0 /\ n_steps = epoch
        /\ thrown[1].site \in {"t_step", "t_opt", "t_eval", "t_record"} =>
               /\ Len(epoch_loss) = batch_idx
               /\ train_res = <<>>

\* optimizer.update raised on the first batch of epoch 1, with batches left
C7_Witness ==
    /\ pc = "raised"
    /\ thrown # <<>> /\ thrown[1] = [type |-> "CollaboratorFailure", site |-> "t_opt"]
    /\ epoch = 1 /\ batch_idx = 0 /\ train_loader >= 2
    /\ max_epochs >= 3

\* C8 (as claimed): a batch whose measured elapsed time is zero is guarded: no
\* division fault aborts the epoch.
C8_Claim ==
    thrown # <<>> /\ thrown[1].site \in {"t_record", "v_record"} => elapsed # 0

\* C9 (as claimed): a batch of size 0 reaching the throughput computation
\* records the sentinel 0 or raises a dedicated error, never an unguarded
\* arithmetic fault.
C9_Claim ==
    x_size = 0 =>
        /\ pc = "t_log" \/ (pc = "v_for" /\ batch_idx >= 0) =>
               throughput[Len(throughput)] = <<0, 1>>
        /\ thrown # <<>> /\ thrown[1].site \in {"t_record", "v_record"} =>
               thrown[1].type # "ZeroDivisionError"

RECURSIVE SumLoss(_)
SumLoss(s) == IF s = <<>> THEN 0 ELSE Head(s).loss + SumLoss(Tail(s))

RECURSIVE ProdElapsed(_)
ProdElapsed(s) == IF s = <<>> THEN 1 ELSE Head(s).elapsed * ProdElapsed(Tail(s))

\* sum of size_i / elapsed_i, times p (p a multiple of every elapsed_i)
RECURSIVE SumScaled(_, _)
SumScaled(s, p) ==
    IF s = <<>> THEN 0
    ELSE Head(s).size * (p \div Head(s).elapsed) + SumScaled(Tail(s), p)

Perms(n) == {p \in [1..n -> 1..n] : \A i, j \in 1..n : i # j => p[i] # p[j]}

\* res is the result of a phase over n batches, seen being those batches
MeansOf(res, n) ==
    LET p == ProdElapsed(seen) IN
    /\ Len(seen) = n
    /\ res.loss[1] * n = res.loss[2] * SumLoss(seen)
    /\ res.throughput[1] * n * p = res.throughput[2] * SumScaled(seen, p)
    /\ \A q \in Perms(n) :
           /\ Mean([i \in 1..n |-> <<seen[q[i]].loss, 1>>]) = res.loss
           /\ Mean([i \in 1..n |-> Rat(seen[q[i]].size, seen[q[i]].elapsed)])
                  = res.throughput

Scenario3x4 == [i \in 1..3 |-> [size |-> 4, loss |-> 1, elapsed |-> 1]]

\* C10: the mean loss a phase returns is (sum of the per-batch losses) / N and
\* its mean throughput (sum of batch_size / elapsed) / N, each batch counted
\* once, both unchanged under any permutation of the batches; 3 batches of size
\* 4, loss 1, elapsed 1 give mean loss 1, the accumulator's value, throughput 4.
C10_Means ==
    /\ pc = "after_train" => MeansOf(train_res[1], train_loader)
    /\ pc = "after_val" => MeansOf(val_res[1], val_loader[1])
    /\ pc = "after_train" /\ seen = Scenario3x4 =>
           train_res[1] = [loss |-> <<1, 1>>,
                           acc |-> AccCompute(PhaseUpdates("train", epoch, 3)),
                           throughput |-> <<4, 1>>]

\* train_epoch returned from 3 batches with different losses and sizes
C10_Witness ==
    /\ pc = "after_train"
    /\ Len(seen) = 3
    /\ seen[1].loss # seen[2].loss
    /\ seen[2].size # seen[3].size
    /\ train_res[1].loss = <<4, 3>>


\* C19 (as claimed): with loss_fn_args left at its default, every training and
\* validation step still calls the loss function (with no extra parameters) and
\* the first batch of epoch 0 completes instead of failing.
C19_Claim ==
    loss_fn_args = "None" =>
        (thrown # <<>> => thrown[1].type # "TypeError")


\* C12: what train() delivers to its caller when the run stops early (the
\* patience flag read true) differs from what it delivers when the schedule
\* ran to its end: SystemExit raised by quit() against a return of None.
C12_OutcomesDiffer ==
    /\ early # <<>> => Outcome(pc, error) = <<"raise", "SystemExit">>
    /\ pc = "returned" =>
           /\ early = <<>>
           /\ epoch = max_epochs - 1
           /\ Outcome(pc, error) = <<"return", "None">>
    /\ \A p \in {"exited"}, q \in {"returned"} : Outcome(p, error) # Outcome(q, error)

\* the run stopped early with epochs of the schedule left
C12_Witness ==
    /\ pc = "exited"
    /\ early # <<>>
    /\ epoch < max_epochs - 1
    /\ Outcome(pc, error) = <<"raise", "SystemExit">>


\* C13: the patience flag is read only at the epoch boundary, right after
\* step(): a flag that is already true when an epoch starts does not cut the
\* epoch short.  Whenever the flag has been read, or the run has stopped early,
\* the training phase has processed all N batches and, if configured, the
\* validation phase all its batches, and step() has been called.
C13_NoMidEpochStop ==
    /\ reads_in_epoch >= 1 \/ pc = "exited" =>
           /\ reads_in_epoch = 1
           /\ last_step # <<>>
           /\ train_res # <<>> /\ Len(train_res[1].acc) = train_loader
           /\ weights = (epoch + 1) * train_loader
           /\ val_loader # <<>> =>
                  val_res # <<>> /\ Len(val_res[1].acc) = val_loader[1]
    /\ pc \in {"train_epoch", "t_for", "t_step", "t_opt", "t_eval", "t_record",
               "t_log", "t_finish", "after_train", "val_epoch", "v_for", "v_step",
               "v_record", "v_finish", "after_val", "ckpt_step"} =>
           reads_in_epoch = 0 /\ early = <<>>

\* epoch 0 started with the flag already true and has run both phases in full
C13_Witness ==
    /\ patience_over
    /\ epoch = 0
    /\ pc = "after_val"
    /\ train_loader = 3 /\ val_loader = <<2>>
    /\ Len(train_res[1].acc) = 3 /\ Len(val_res[1].acc) = 2


\* C14: every training step runs with the model in training mode and every
\* validation step with the model in evaluation mode, in every epoch: after a
\* validation phase the next epoch's training steps are in training mode again.
C14_Modes ==
    /\ pc \in {"t_for", "t_step", "t_opt", "t_eval", "t_record", "t_log", "t_finish"} =>
           mode = "train"
    /\ pc \in {"v_for", "v_step", "v_record", "v_finish"} => mode = "eval"
    /\ thrown # <<>> /\ thrown[1].site \in {"t_step", "t_opt", "t_eval"} => mode = "train"
    /\ thrown # <<>> /\ thrown[1].site = "v_step" => mode = "eval"

\* a training step of epoch 1, after the validation phase of epoch 0
C14_Witness ==
    /\ pc = "t_step"
    /\ epoch = 1
    /\ val_loader # <<>>
    /\ mode = "train"


\* C15: in a training phase every batch causes exactly one update of the
\* training accumulator and exactly one optimizer update, the optimizer update
\* after the batch's loss and gradients are computed and before the next batch
\* is pulled; a phase makes N of each and e completed epochs e * N of each.
C15_OncePerBatch ==
    /\ pc = "t_step" =>
           /\ Len(train_acc) = batch_idx
           /\ n_updates = epoch * train_loader + batch_idx
           /\ weights = epoch * train_loader + batch_idx
    /\ pc = "t_opt" =>
           /\ events = <<"tic", "compute">>
           /\ Len(train_acc) = batch_idx + 1
           /\ n_updates = epoch * train_loader + batch_idx + 1
           /\ weights = epoch * train_loader + batch_idx
    /\ pc \in {"t_eval", "t_record", "t_log"} \/ (pc = "t_for" /\ batch_idx >= 0) =>
           /\ Len(train_acc) = batch_idx + 1
           /\ n_updates = epoch * train_loader + batch_idx + 1
           /\ weights = epoch * train_loader + batch_idx + 1
    /\ pc = "t_log" => events = <<"tic", "compute", "update", "sync", "toc", "item">>
    /\ pc = "after_train" =>
           /\ Len(train_res[1].acc) = train_loader
           /\ acc_log = Updates(train_loader) \o <<"compute", "reset">>
    /\ pc \in {"after_train", "epoch_end", "for_epoch", "returned", "exited"} =>
           /\ n_updates = (epoch + 1) * train_loader
           /\ weights = (epoch + 1) * train_loader

\* two epochs over 3 batches are complete: 6 updates of each kind
C15_Witness ==
    /\ pc = "for_epoch"
    /\ epoch = 1
    /\ train_loader = 3
    /\ n_updates = 6 /\ weights = 6


ValPcs == {"val_epoch", "v_for", "v_step", "v_record", "v_finish", "after_val"}
TrainPcs == {"train_epoch", "t_for", "t_step", "t_opt", "t_eval", "t_record", "t_log",
             "t_finish"}

\* C16: the validation phase leaves the model parameters, the optimizer (no
\* update is applied) and the training accumulator unchanged and updates only
\* the validation accumulator; the training phase leaves the validation
\* accumulator unchanged.
C16_PhasesFramed ==
    /\ pc \in ValPcs \/ (thrown # <<>> /\ thrown[1].site \in ValPcs) =>
           /\ weights = (epoch + 1) * train_loader
           /\ n_updates = (epoch + 1) * train_loader
           /\ train_acc = AccNew
           /\ train_res # <<>>
           /\ \A i \in DOMAIN val_acc : val_acc[i][1] = "val"
    /\ pc \in {"v_step", "v_record"} => Len(val_acc) \in {batch_idx, batch_idx + 1}
    /\ pc = "v_record" => Len(val_acc) = batch_idx + 1
    /\ pc \in TrainPcs \/ (thrown # <<>> /\ thrown[1].site \in TrainPcs) =>
           /\ val_acc = AccNew
           /\ val_res = <<>>
           /\ \A i \in DOMAIN train_acc : train_acc[i][1] = "train"

\* the second validation batch of epoch 1 has been stepped
C16_Witness ==
    /\ pc = "v_record"
    /\ epoch = 1 /\ batch_idx = 1
    /\ Len(val_acc) = 2
    /\ train_acc = AccNew
    /\ weights = 2 * train_loader


\* C17: in every phase the phase's accumulator is read by compute() exactly
\* once, after the last update of the phase and before the one reset() that ends
\* the phase; no compute() happens between two updates or after the reset.
C17_ComputeThenReset ==
    /\ pc \in (TrainPcs \cup ValPcs) \ {"val_epoch", "after_val"} =>
           \A i \in DOMAIN acc_log : acc_log[i] = "update"
    /\ pc = "after_train" =>
           /\ acc_log = Updates(train_loader) \o <<"compute", "reset">>
           /\ train_res[1].acc = AccCompute(PhaseUpdates("train", epoch, train_loader))
           /\ train_acc = AccReset(PhaseUpdates("train", epoch, train_loader))
    /\ pc = "after_val" =>
           /\ acc_log = Updates(val_loader[1]) \o <<"compute", "reset">>
           /\ val_res[1].acc = AccCompute(PhaseUpdates("val", epoch, val_loader[1]))
           /\ val_acc = AccReset(PhaseUpdates("val", epoch, val_loader[1]))

\* the validation phase of epoch 1 over 2 batches has returned
C17_Witness ==
    /\ pc = "after_val"
    /\ epoch = 1
    /\ acc_log = <<"update", "update", "compute", "reset">>
    /\ Len(val_res[1].acc) = 2


\* a comes before b in the event sequence ev
Before(a, b, ev) == \E i, j \in DOMAIN ev : i < j /\ ev[i] = a /\ ev[j] = b

\* C18 (as claimed): for every batch of the training and of the validation
\* phase the order is start timer, compute, synchronize, stop timer, read loss:
\* the timer is stopped only after an explicit synchronization point.
C18_Claim ==
    (\E i \in DOMAIN events : events[i] = "toc") =>
        /\ Before("tic", "compute", events)
        /\ Before("compute", "sync", events)
        /\ Before("sync", "toc", events)
        /\ (\E i \in DOMAIN events : events[i] = "item") => Before("toc", "item", events)


\* a checkpoint policy that requires a key the loop will never supply
InvalidCombination == model_checkpoint /\ monitor \notin SuppliedKeys(val_loader)

\* C11 (as claimed): a Trainer constructed with an invalid combination of
\* options is rejected at construction: no epoch, training step or checkpoint
\* step ever runs with it.
C11_Claim ==
    InvalidCombination =>
        /\ pc \in {"idle", "raised"}
        /\ thrown # <<>> => thrown[1].type = "ConfigurationError"
        /\ epoch = -1 /\ weights = 0 /\ n_updates = 0 /\ n_steps = 0

====
